---- MODULE Spec2Model ----
(***************************************************************************)
(* Model of the GoogleBooks service: the /books handler (func main) and    *)
(* the fetch-filter-accumulate loop (func getBooks) with its validator     *)
(* (func hasEmptyInformation).  Two builds of the program exist: the base  *)
(* build (src/main.go) and the extended build (src/unnamed/part_000),      *)
(* whose BookInformation carries a Categories field.                       *)
(***************************************************************************)
EXTENDS Integers, Sequences, FiniteSets, TLC

VARIABLES
    variant,     \* which build runs: "base" or "extended"
    upstream,    \* the bodies the upstream service can answer with
    pc,          \* position of each request's goroutine
    queryParam,  \* r.URL.Query().Get("query"), a sequence of characters
    limitParam,  \* r.URL.Query().Get("limit"), a sequence of characters
    invoked,     \* getBooks has been called for the request
    q,           \* getBooks: q, the escaped query
    limit,       \* getBooks: limit (after the clamp)
    books,       \* getBooks: var books []Book, one cell per invocation
    body,        \* the response body of the outstanding upstream call
    items,       \* getBooks: response.Items of the current iteration
    idx,         \* getBooks: position of the range loop over response.Items
    ret,         \* getBooks: the returned []Book
    err,         \* getBooks: the returned error is non-nil
    status,      \* HTTP status written by the handler (0: none yet)
    response,    \* the response struct marshalled by the handler
    calls,       \* history: number of upstream calls issued
    fails,       \* history: number of upstream calls that failed
    sent,        \* history: the set of request URLs sent upstream
    pages,       \* history: the pages decoded by the first MaxTracked calls
    lenAtCall    \* history: len(books) when the latest upstream call was issued

vars == <<variant, upstream, pc, queryParam, limitParam, invoked, q, limit, books, body,
          items, idx, ret, err, status, response, calls, fails, sent, pages,
          lenAtCall>>

(***************************************************************************)
(* Bounds                                                                  *)
(***************************************************************************)
\* the upstream answers freely for MaxTracked calls, then repeats its last page
MaxTracked == 3
\* the call counter saturates at CallCap
CallCap == 52
\* number of records of the large upstream page
BulkLen == 20

Reqs == {1, 2}

(***************************************************************************)
(* Program constants                                                       *)
(***************************************************************************)
maxLimit == 50
StatusOK == 200
StatusBadRequest == 400
StatusInternalServerError == 500

Min(a, b) == IF a < b THEN a ELSE b

(***************************************************************************)
(* strconv.Atoi on a sequence of characters: optional sign, then one or    *)
(* more decimal digits; anything else is an error.                         *)
(***************************************************************************)
DigitVal == [c \in {"0","1","2","3","4","5","6","7","8","9"} |->
               CASE c = "0" -> 0 [] c = "1" -> 1 [] c = "2" -> 2 [] c = "3" -> 3
                 [] c = "4" -> 4 [] c = "5" -> 5 [] c = "6" -> 6 [] c = "7" -> 7
                 [] c = "8" -> 8 [] c = "9" -> 9]

RECURSIVE DigitsValue(_)
DigitsValue(s) ==
    IF s = <<>> THEN 0
    ELSE 10 * DigitsValue(SubSeq(s, 1, Len(s) - 1)) + DigitVal[s[Len(s)]]

Atoi(s) ==
    LET signed == s # <<>> /\ s[1] \in {"-", "+"}
        digits == IF signed THEN Tail(s) ELSE s
    IN  IF digits = <<>> \/ \E i \in 1..Len(digits) : digits[i] \notin DOMAIN DigitVal
        THEN [val |-> 0, err |-> TRUE]
        ELSE [val |-> IF signed /\ s[1] = "-" THEN 0 - DigitsValue(digits)
                      ELSE DigitsValue(digits),
              err |-> FALSE]

(***************************************************************************)
(* url.QueryEscape: unreserved characters stay, a space becomes "+", every *)
(* other byte becomes %XX.                                                 *)
(***************************************************************************)
Unreserved == {"a", "d", "e", "n", "u", "-", "_", ".", "~"}

CharCode(c) == CASE c = "&" -> 38 [] c = "+" -> 43 [] c = "=" -> 61 [] OTHER -> 63

HexDigit(n) == <<"0","1","2","3","4","5","6","7","8","9","A","B","C","D","E","F">>[n + 1]

EscapeChar(c) ==
    IF c \in Unreserved THEN <<c>>
    ELSE IF c = " " THEN <<"+">>
    ELSE <<"%", HexDigit(CharCode(c) \div 16), HexDigit(CharCode(c) % 16)>>

RECURSIVE QueryEscape(_)
QueryEscape(s) ==
    IF s = <<>> THEN <<>> ELSE EscapeChar(Head(s)) \o QueryEscape(Tail(s))

\* fmt.Sprintf("https://www.googleapis.com/books/v1/volumes?q=%s", q)
RequestURL(qq) == <<"https://www.googleapis.com/books/v1/volumes?q=">> \o qq

(***************************************************************************)
(* Upstream volumes (the volumeInfo objects of the JSON body)              *)
(***************************************************************************)
Vol(t, d, a, c, p, s, n) ==
    [title |-> t, description |-> d, authors |-> a, categories |-> c,
     pageCount |-> p, smallThumbnail |-> s, thumbnail |-> n]

VolA == Vol("Dune", "desert", <<"Herbert">>, <<"Fiction">>, 412, "s1", "n1")
VolB == Vol("Emma", "match", <<"Austen">>, <<"Fiction">>, 474, "s2", "n2")
VolC == Vol("Ubik", "decay", <<"Dick">>, <<"Science">>, 202, "s3", "n3")
VolNoCat == Vol("Solaris", "ocean", <<"Lem">>, <<>>, 204, "s4", "n4")
VolNeg == Vol("Neg", "negative", <<"Anon">>, <<"Misc">>, -1, "s5", "n5")
VolZero == Vol("Zero", "nopages", <<"Anon">>, <<"Misc">>, 0, "s6", "n6")
VolNoTitle == Vol("", "untitled", <<"Anon">>, <<"Misc">>, 10, "s7", "n7")
VolNoDesc == Vol("Blank", "", <<"Anon">>, <<"Misc">>, 11, "s8", "n8")
VolNoAuthors == Vol("Orphan", "noauthor", <<>>, <<"Misc">>, 12, "s9", "n9")
VolNoSmall == Vol("NoSmall", "nosmall", <<"Anon">>, <<"Misc">>, 13, "", "n10")
VolNoNormal == Vol("NoNormal", "nonormal", <<"Anon">>, <<"Misc">>, 14, "s11", "")

EmptyPage == <<>>
FivePage == <<VolA, VolB, VolC, VolB, VolA>>
MixedPage == <<VolNoTitle, VolA, VolZero, VolNoDesc, VolB>>
IncompletePage == <<VolNoAuthors, VolNoSmall, VolNoNormal>>
VariantPage == <<VolNoCat, VolNeg>>
BulkPage == [i \in 1..BulkLen |-> VolA]

UpstreamPages == {EmptyPage, FivePage, MixedPage, IncompletePage, VariantPage, BulkPage}

(***************************************************************************)
(* type BookInformation and the decoding of one item into it               *)
(***************************************************************************)
BookInformationBase(v) ==
    [Title |-> v.title, Description |-> v.description, Authors |-> v.authors,
     Pages |-> v.pageCount,
     Images |-> [Small |-> v.smallThumbnail, Normal |-> v.thumbnail]]

BookInformationExt(v) ==
    [Title |-> v.title, Description |-> v.description, Authors |-> v.authors,
     Categories |-> v.categories, Pages |-> v.pageCount,
     Images |-> [Small |-> v.smallThumbnail, Normal |-> v.thumbnail]]

\* json.NewDecoder(resp.Body).Decode(&response): the Items of the body
DecodeItems(build, b) ==
    [i \in 1..Len(b) |->
        [BookInformation |-> IF build = "extended" THEN BookInformationExt(b[i])
                             ELSE BookInformationBase(b[i])]]

Book(bi) == [BookInformation |-> bi]

(***************************************************************************)
(* func hasEmptyInformation                                                *)
(***************************************************************************)
hasEmptyInformationBase(bi) ==
    \/ bi.Pages = 0
    \/ bi.Description = ""
    \/ Len(bi.Authors) = 0
    \/ bi.Images.Normal = ""
    \/ bi.Images.Small = ""
    \/ bi.Title = ""

hasEmptyInformationExt(bi) ==
    \/ bi.Pages = 0
    \/ bi.Description = ""
    \/ Len(bi.Authors) = 0
    \/ bi.Images.Normal = ""
    \/ bi.Images.Small = ""
    \/ bi.Title = ""
    \/ Len(bi.Categories) = 0

hasEmptyInformation(build, bi) ==
    IF build = "extended" THEN hasEmptyInformationExt(bi)
    ELSE hasEmptyInformationBase(bi)

(***************************************************************************)
(* Upstream answers: a body is well formed (it decodes to its items) or    *)
(* malformed (Decode fails).                                               *)
(***************************************************************************)
PageBody(p) == [wellFormed |-> TRUE, items |-> p]
MalformedBody == [wellFormed |-> FALSE, items |-> <<>>]
UpstreamBodies == {PageBody(p) : p \in UpstreamPages} \cup {MalformedBody}

\* the answers the upstream may give to the next call of request r
Answers(r) == IF calls[r] < MaxTracked THEN upstream ELSE {body[r]}

(***************************************************************************)
(* Request parameters                                                      *)
(***************************************************************************)
QueryParams == {<<>>, <<"d", "u", "n", "e">>, <<"a", " ", "&">>}
LimitParams == {<<>>, <<"a", "b", "c">>, <<"-", "1">>, <<"0">>, <<"1">>,
                <<"2">>, <<"3">>, <<"5", "1">>}
ConcLimitParams == {<<"1">>, <<"2">>}
ConcPages == {EmptyPage, MixedPage, VariantPage}

NoResponse == [Query |-> <<>>, Total |-> -1, Books |-> <<>>]

\* variants of the pieces below, each with one plausible slip
NonPositiveLimit(l) == l <= 0

NeverNegativeLimit(l) == FALSE

ClampLimitOff(l) == l

BufShared(r) == 1

ScanBreakLate(bks, lim) == Len(bks) > lim

ErrorResultPartial(bks) == bks

EmptyPageResultDropped(bks) == <<>>

AfterFailureRetry == "loop"

LoopCondEarly(bks, lim) == Len(bks) < lim - 1

ScanBreakEarly(bks, lim) == Len(bks) + 1 >= lim

AppendBookFront(bks, b) == <<b>> \o bks

EchoEscapedQuery(r) == q[r]

RequestPaged(r) ==
    RequestURL(q[r]) \o <<"&startIndex=", HexDigit(Len(books[r]) % 16)>>

(***************************************************************************)
(* Pieces of func main and func getBooks                                   *)
(***************************************************************************)
\* if l < 0 { http.Error(w, "limit cant be a negative number", 400) }
NegativeLimit(l) == l < 0

\* if limit > maxLimit { limit = maxLimit }
ClampLimit(l) == IF l > maxLimit THEN maxLimit ELSE l

\* var books []Book is a local of getBooks: one buffer per invocation
BufOf(r) == r

\* for len(books) < limit
LoopCond(bks, lim) == Len(bks) < lim

\* if len(books) >= limit { break }
ScanBreak(bks, lim) == Len(bks) >= lim

\* return []Book{}, err
ErrorResult(bks) == <<>>

\* the two returns taken on an empty page
EmptyPageResult(bks) == IF Len(bks) = 0 THEN <<>> ELSE bks

Buf(r) == books[BufOf(r)]

\* the URL of every http.Get of the invocation
Request(r) == RequestURL(q[r])

\* both failure paths return from getBooks
AfterFailure == "ret"

\* books = append(books, Book{...})
AppendBook(bks, b) == Append(bks, b)

\* Query: query in the response struct
EchoQuery(r) == queryParam[r]

(***************************************************************************)
(* Initial states                                                          *)
(***************************************************************************)
InitCommon ==
    /\ variant \in {"base", "extended"}
    /\ invoked = [r \in Reqs |-> FALSE]
    /\ q = [r \in Reqs |-> <<>>]
    /\ limit = [r \in Reqs |-> 0]
    /\ books = [c \in Reqs |-> <<>>]
    /\ body = [r \in Reqs |-> MalformedBody]
    /\ items = [r \in Reqs |-> <<>>]
    /\ idx = [r \in Reqs |-> 0]
    /\ ret = [r \in Reqs |-> <<>>]
    /\ err = [r \in Reqs |-> FALSE]
    /\ status = [r \in Reqs |-> 0]
    /\ response = [r \in Reqs |-> NoResponse]
    /\ calls = [r \in Reqs |-> 0]
    /\ fails = [r \in Reqs |-> 0]
    /\ sent = [r \in Reqs |-> {}]
    /\ pages = [r \in Reqs |-> <<>>]
    /\ lenAtCall = [r \in Reqs |-> 0]

\* one request in flight
Init ==
    /\ InitCommon
    /\ pc = [r \in Reqs |-> IF r = 1 THEN "recv" ELSE "absent"]
    /\ \E qp \in QueryParams : queryParam = [r \in Reqs |-> qp]
    /\ \E lp \in LimitParams : limitParam = [r \in Reqs |-> lp]
    /\ upstream = UpstreamBodies

\* two concurrent requests
InitConc ==
    /\ InitCommon
    /\ pc = [r \in Reqs |-> "recv"]
    /\ queryParam = [r \in Reqs |-> <<"d", "u", "n", "e">>]
    /\ limitParam \in [Reqs -> ConcLimitParams]
    /\ upstream = {PageBody(p) : p \in ConcPages} \cup {MalformedBody}

(***************************************************************************)
(* The /books handler up to the call of getBooks (validation)              *)
(***************************************************************************)
Reject(r) ==
    /\ status' = [status EXCEPT ![r] = StatusBadRequest]
    /\ pc' = [pc EXCEPT ![r] = "done"]

Validate(r) ==
    /\ pc[r] = "recv"
    /\ IF queryParam[r] = <<>> THEN Reject(r)
       ELSE IF limitParam[r] = <<>> THEN Reject(r)
       ELSE IF Atoi(limitParam[r]).err THEN Reject(r)
       ELSE IF NegativeLimit(Atoi(limitParam[r]).val) THEN Reject(r)
       ELSE /\ pc' = [pc EXCEPT ![r] = "call"]
            /\ UNCHANGED status
    /\ UNCHANGED <<variant, upstream, queryParam, limitParam, invoked, q, limit,
                   books, body, items, idx, ret, err, response, calls, fails,
                   sent, pages, lenAtCall>>

(***************************************************************************)
(* getBooks: entry, clamp and the limit == 0 return                        *)
(***************************************************************************)
GetBooksEntry(r) ==
    /\ pc[r] = "call"
    /\ invoked' = [invoked EXCEPT ![r] = TRUE]
    /\ books' = [books EXCEPT ![BufOf(r)] = <<>>]
    /\ q' = [q EXCEPT ![r] = QueryEscape(queryParam[r])]
    /\ LET lim == ClampLimit(Atoi(limitParam[r]).val)
       IN  /\ limit' = [limit EXCEPT ![r] = lim]
           /\ IF lim = 0
              THEN /\ ret' = [ret EXCEPT ![r] = <<>>]
                   /\ pc' = [pc EXCEPT ![r] = "ret"]
              ELSE /\ pc' = [pc EXCEPT ![r] = "loop"]
                   /\ UNCHANGED ret
    /\ UNCHANGED <<variant, upstream, queryParam, limitParam, body, items, idx,
                   err, status, response, calls, fails, sent, pages, lenAtCall>>

\* for len(books) < limit { ... } return books, nil
LoopTest(r) ==
    /\ pc[r] = "loop"
    /\ IF LoopCond(Buf(r), limit[r])
       THEN /\ pc' = [pc EXCEPT ![r] = "get"]
            /\ UNCHANGED ret
       ELSE /\ ret' = [ret EXCEPT ![r] = Buf(r)]
            /\ pc' = [pc EXCEPT ![r] = "ret"]
    /\ UNCHANGED <<variant, upstream, queryParam, limitParam, invoked, q, limit,
                   books, body, items, idx, err, status, response, calls, fails,
                   sent, pages, lenAtCall>>

\* resp, err := http.Get(...): the call fails, or a body arrives
HttpGet(r) ==
    /\ pc[r] = "get"
    /\ calls' = [calls EXCEPT ![r] = Min(calls[r] + 1, CallCap)]
    /\ sent' = [sent EXCEPT ![r] = sent[r] \cup {Request(r)}]
    /\ lenAtCall' = [lenAtCall EXCEPT ![r] = Len(Buf(r))]
    /\ \/ /\ calls[r] < MaxTracked
          /\ fails' = [fails EXCEPT ![r] = fails[r] + 1]
          /\ ret' = [ret EXCEPT ![r] = ErrorResult(Buf(r))]
          /\ err' = [err EXCEPT ![r] = TRUE]
          /\ pc' = [pc EXCEPT ![r] = AfterFailure]
          /\ UNCHANGED body
       \/ /\ \E b \in Answers(r) : body' = [body EXCEPT ![r] = b]
          /\ pc' = [pc EXCEPT ![r] = "decode"]
          /\ UNCHANGED <<fails, ret, err>>
    /\ UNCHANGED <<variant, upstream, queryParam, limitParam, invoked, q, limit,
                   books, items, idx, status, response, pages>>

\* json.NewDecoder(resp.Body).Decode(&response)
Decode(r) ==
    /\ pc[r] = "decode"
    /\ IF ~body[r].wellFormed
       THEN /\ fails' = [fails EXCEPT ![r] = fails[r] + 1]
            /\ ret' = [ret EXCEPT ![r] = ErrorResult(Buf(r))]
            /\ err' = [err EXCEPT ![r] = TRUE]
            /\ pc' = [pc EXCEPT ![r] = AfterFailure]
            /\ UNCHANGED <<items, pages>>
       ELSE /\ items' = [items EXCEPT ![r] = DecodeItems(variant, body[r].items)]
            /\ pages' = [pages EXCEPT ![r] =
                            IF calls[r] <= MaxTracked
                            THEN Append(pages[r], DecodeItems(variant, body[r].items))
                            ELSE pages[r]]
            /\ pc' = [pc EXCEPT ![r] = "check"]
            /\ UNCHANGED <<fails, ret, err>>
    /\ UNCHANGED <<variant, upstream, queryParam, limitParam, invoked, q, limit,
                   books, body, idx, status, response, calls, sent, lenAtCall>>

\* if len(response.Items) == 0 ... return
CheckEmpty(r) ==
    /\ pc[r] = "check"
    /\ IF Len(items[r]) = 0
       THEN /\ ret' = [ret EXCEPT ![r] = EmptyPageResult(Buf(r))]
            /\ pc' = [pc EXCEPT ![r] = "ret"]
            /\ UNCHANGED idx
       ELSE /\ idx' = [idx EXCEPT ![r] = 1]
            /\ pc' = [pc EXCEPT ![r] = "scan"]
            /\ UNCHANGED ret
    /\ UNCHANGED <<variant, upstream, queryParam, limitParam, invoked, q, limit,
                   books, body, items, err, status, response, calls, fails,
                   sent, pages, lenAtCall>>

\* one iteration of: for _, item := range response.Items
ScanItem(r) ==
    /\ pc[r] = "scan"
    /\ IF idx[r] > Len(items[r])
       THEN /\ pc' = [pc EXCEPT ![r] = "loop"]
            /\ UNCHANGED <<books, idx>>
       ELSE IF ScanBreak(Buf(r), limit[r])
       THEN /\ pc' = [pc EXCEPT ![r] = "loop"]
            /\ UNCHANGED <<books, idx>>
       ELSE IF hasEmptyInformation(variant, items[r][idx[r]].BookInformation)
       THEN /\ idx' = [idx EXCEPT ![r] = idx[r] + 1]
            /\ UNCHANGED <<books, pc>>
       ELSE /\ books' = [books EXCEPT ![BufOf(r)] =
                            AppendBook(Buf(r), Book(items[r][idx[r]].BookInformation))]
            /\ idx' = [idx EXCEPT ![r] = idx[r] + 1]
            /\ UNCHANGED pc
    /\ UNCHANGED <<variant, upstream, queryParam, limitParam, invoked, q, limit,
                   body, items, ret, err, status, response, calls, fails, sent,
                   pages, lenAtCall>>

(***************************************************************************)
(* The /books handler after getBooks returned                              *)
(***************************************************************************)
Respond(r) ==
    /\ pc[r] = "ret"
    /\ IF err[r]
       THEN /\ status' = [status EXCEPT ![r] = StatusInternalServerError]
            /\ UNCHANGED response
       ELSE /\ status' = [status EXCEPT ![r] = StatusOK]
            /\ response' = [response EXCEPT ![r] =
                    [Query |-> EchoQuery(r), Total |-> Len(ret[r]), Books |-> ret[r]]]
    /\ pc' = [pc EXCEPT ![r] = "done"]
    /\ UNCHANGED <<variant, upstream, queryParam, limitParam, invoked, q, limit,
                   books, body, items, idx, ret, err, calls, fails, sent, pages, lenAtCall>>

Step(r) ==
    \/ Validate(r)
    \/ GetBooksEntry(r)
    \/ LoopTest(r)
    \/ HttpGet(r)
    \/ Decode(r)
    \/ CheckEmpty(r)
    \/ ScanItem(r)
    \/ Respond(r)

Next == \E r \in Reqs : Step(r)

Spec == Init /\ [][Next]_vars

SpecConc == InitConc /\ [][Next]_vars

\* every goroutine keeps running and every upstream call returns
FairSpec == Init /\ [][Next]_vars /\ \A r \in Reqs : WF_vars(Step(r))


(***************************************************************************)
(* Vocabulary of the properties                                            *)
(***************************************************************************)
Active(r) == pc[r] # "absent"

\* the limit the caller asked for
Requested(r) == Atoi(limitParam[r]).val

\* the clamped limit min(limit, 50)
Clamped(r) == Min(Requested(r), maxLimit)

\* every page the request received is recorded in pages[r]
Tracked(r) == calls[r] <= MaxTracked

\* the completeness predicate of the specification (section 4.2)
IsComplete(build, bi) ==
    /\ bi.Title # ""
    /\ bi.Description # ""
    /\ Len(bi.Authors) > 0
    /\ bi.Pages > 0
    /\ bi.Images.Small # ""
    /\ bi.Images.Normal # ""
    /\ (build = "extended" => Len(bi.Categories) > 0)

RECURSIVE Concat(_)
Concat(ps) == IF ps = <<>> THEN <<>> ELSE Head(ps) \o Concat(Tail(ps))

RECURSIVE CompleteOnly(_, _)
CompleteOnly(build, its) ==
    IF its = <<>> THEN <<>>
    ELSE IF IsComplete(build, Head(its).BookInformation)
         THEN <<Book(Head(its).BookInformation)>> \o CompleteOnly(build, Tail(its))
         ELSE CompleteOnly(build, Tail(its))

RECURSIVE AcceptedOnly(_, _)
AcceptedOnly(build, its) ==
    IF its = <<>> THEN <<>>
    ELSE IF ~hasEmptyInformation(build, Head(its).BookInformation)
         THEN <<Book(Head(its).BookInformation)>> \o AcceptedOnly(build, Tail(its))
         ELSE AcceptedOnly(build, Tail(its))

Take(s, k) == SubSeq(s, 1, Min(k, Len(s)))

TypeOK ==
    /\ variant \in {"base", "extended"}
    /\ \A r \in Reqs : calls[r] \in 0..CallCap /\ Len(pages[r]) <= MaxTracked

(***************************************************************************)
(* C1: getBooks always terminates: every request that is received is       *)
(* eventually answered, whatever pages the upstream returns, provided      *)
(* every call returns.                                                     *)
(***************************************************************************)
C1_Terminates == \A r \in Reqs : (pc[r] = "recv") ~> (pc[r] = "done")

(***************************************************************************)
(* C2: the accumulation buffer, the returned list and the reported total   *)
(* never exceed min(limit, 50).                                            *)
(***************************************************************************)
C2_BufferWithinClampedLimit ==
    \A r \in Reqs : invoked[r] =>
        /\ Len(Buf(r)) <= Clamped(r)
        /\ Len(ret[r]) <= Clamped(r)
        /\ (status[r] = StatusOK => /\ response[r].Total <= Clamped(r)
                                    /\ Len(response[r].Books) <= Clamped(r))

C2_Witness ==
    /\ pc[1] = "done"
    /\ Requested(1) > maxLimit
    /\ status[1] = StatusOK
    /\ response[1].Total = maxLimit

(***************************************************************************)
(* C3: every record of the buffer and of a returned list satisfies the     *)
(* completeness predicate of the specification (page count > 0 included).  *)
(***************************************************************************)
C3_ReturnedRecordsComplete ==
    \A r \in Reqs :
        /\ \A i \in 1..Len(Buf(r)) : IsComplete(variant, Buf(r)[i].BookInformation)
        /\ \A i \in 1..Len(ret[r]) : IsComplete(variant, ret[r][i].BookInformation)

(***************************************************************************)
(* C4: a successful result is the first k records of the pages received,   *)
(* concatenated in call order with the incomplete records deleted, where   *)
(* k = min(clamped limit, number of complete records received).            *)
(***************************************************************************)
C4_FirstKComplete ==
    \A r \in Reqs : (pc[r] = "done" /\ status[r] = StatusOK /\ Tracked(r)) =>
        response[r].Books =
            Take(CompleteOnly(variant, Concat(pages[r])), Clamped(r))

\* the same statement with "incomplete" read as hasEmptyInformation
FirstKAccepted ==
    \A r \in Reqs : (pc[r] = "done" /\ status[r] = StatusOK /\ Tracked(r)) =>
        response[r].Books =
            Take(AcceptedOnly(variant, Concat(pages[r])), Clamped(r))

(***************************************************************************)
(* C5: a request with a non-empty query and limit 0 makes no upstream      *)
(* call and is answered 200 with total 0 and an empty list.                *)
(***************************************************************************)
LimitIsZero(r) ==
    /\ Active(r)
    /\ queryParam[r] # <<>>
    /\ limitParam[r] = <<"0">>

C5_LimitZero ==
    \A r \in Reqs : LimitIsZero(r) =>
        /\ calls[r] = 0
        /\ sent[r] = {}
        /\ pc[r] \in {"recv", "call", "ret", "done"}
        /\ (pc[r] = "done" => /\ status[r] = StatusOK
                              /\ response[r].Total = 0
                              /\ response[r].Books = <<>>)

C5_Witness ==
    /\ LimitIsZero(1)
    /\ pc[1] = "done"
    /\ invoked[1]
    /\ status[1] = StatusOK

(***************************************************************************)
(* C6: once an upstream call has failed, getBooks returns an error with an *)
(* empty list, never the partial buffer, and the handler answers 500.      *)
(***************************************************************************)
C6_FailureAborts ==
    \A r \in Reqs : fails[r] > 0 =>
        /\ pc[r] \in {"ret", "done"}
        /\ err[r]
        /\ ret[r] = <<>>
        /\ status[r] # StatusOK
        /\ response[r] = NoResponse
        /\ (pc[r] = "done" => status[r] = StatusInternalServerError)

C6_Witness ==
    /\ pc[1] = "done"
    /\ fails[1] > 0
    /\ calls[1] > 1
    /\ Len(Buf(1)) > 0
    /\ status[1] = StatusInternalServerError

(***************************************************************************)
(* C7: an empty page ends the aggregation at once and without error: the   *)
(* records accumulated so far are returned, the answer is 200 with total   *)
(* the accumulated count, and no upstream call follows the empty page.     *)
(***************************************************************************)
C7_EmptyPageReturns ==
    \A r \in Reqs : \A i \in 1..Len(pages[r]) : pages[r][i] = <<>> =>
        /\ i = Len(pages[r])
        /\ calls[r] = i
        /\ pc[r] \in {"check", "ret", "done"}
        /\ (pc[r] \in {"ret", "done"} => ~err[r] /\ ret[r] = Buf(r))
        /\ (pc[r] = "done" => /\ status[r] = StatusOK
                              /\ response[r].Total = Len(Buf(r))
                              /\ response[r].Books = Buf(r))

C7_Witness ==
    /\ pc[1] = "done"
    /\ Len(pages[1]) > 1
    /\ pages[1][Len(pages[1])] = <<>>
    /\ Len(Buf(1)) > 0
    /\ Len(Buf(1)) < limit[1]
    /\ status[1] = StatusOK

(***************************************************************************)
(* C8: a request with a missing or empty query, a missing limit, a limit   *)
(* that is not an integer or a negative limit is answered 400; getBooks is *)
(* never invoked for it and no upstream call is made.                      *)
(***************************************************************************)
BadLimitParams == {<<>>, <<"a", "b", "c">>, <<"-", "1">>}

Invalid(r) == queryParam[r] = <<>> \/ limitParam[r] \in BadLimitParams

C8_InvalidRejected ==
    \A r \in Reqs : (Active(r) /\ Invalid(r)) =>
        /\ ~invoked[r]
        /\ calls[r] = 0
        /\ sent[r] = {}
        /\ pc[r] \in {"recv", "done"}
        /\ (pc[r] = "done" => status[r] = StatusBadRequest)

C8_Witness ==
    /\ pc[1] = "done"
    /\ queryParam[1] # <<>>
    /\ limitParam[1] = <<"-", "1">>
    /\ status[1] = StatusBadRequest

(***************************************************************************)
(* C9: concurrent requests are isolated: a request's buffer holds only     *)
(* records of the pages returned to that request, and its result is the    *)
(* result of running getBooks alone on those pages.                        *)
(***************************************************************************)
\* the range loop of getBooks over one page, run to its end
RECURSIVE ScanAlone(_, _, _, _)
ScanAlone(build, bks, its, lim) ==
    IF its = <<>> \/ Len(bks) >= lim THEN bks
    ELSE IF hasEmptyInformation(build, Head(its).BookInformation)
         THEN ScanAlone(build, bks, Tail(its), lim)
         ELSE ScanAlone(build, Append(bks, Book(Head(its).BookInformation)),
                        Tail(its), lim)

\* getBooks run alone on the page sequence ps
RECURSIVE RunAlone(_, _, _, _)
RunAlone(build, bks, ps, lim) ==
    IF Len(bks) >= lim \/ ps = <<>> \/ Head(ps) = <<>> THEN bks
    ELSE RunAlone(build, ScanAlone(build, bks, Head(ps), lim), Tail(ps), lim)

FromOwnPages(r) ==
    \A i \in 1..Len(Buf(r)) :
        \E j \in 1..Len(pages[r]) : \E k \in 1..Len(pages[r][j]) :
            Buf(r)[i] = Book(pages[r][j][k].BookInformation)

C9_Isolation ==
    \A r \in Reqs : Tracked(r) =>
        /\ FromOwnPages(r)
        /\ (pc[r] = "done" /\ status[r] = StatusOK =>
                response[r].Books = RunAlone(variant, <<>>, pages[r], Clamped(r)))

C9_Witness ==
    /\ pc[1] = "done"
    /\ status[1] = StatusOK
    /\ Len(response[1].Books) > 0
    /\ pc[2] = "scan"
    /\ Len(pages[2]) > 1
    /\ Len(Buf(2)) > 0
    /\ Buf(2)[1] # response[1].Books[1]

(***************************************************************************)
(* C10: an upstream call is issued only while the buffer is strictly below *)
(* the clamped limit, and once the buffer size equals the clamped limit no *)
(* candidate is appended and no upstream call is made.                     *)
(***************************************************************************)
CallOutstanding(r) == pc[r] \in {"get", "decode"}

C10_NoOverFetch ==
    /\ [](\A r \in Reqs : CallOutstanding(r) => Len(Buf(r)) < Clamped(r))
    /\ [][\A r \in Reqs : (invoked[r] /\ Len(Buf(r)) = Clamped(r)) =>
              /\ books'[BufOf(r)] = Buf(r)
              /\ ~(CallOutstanding(r))'
              /\ calls'[r] = calls[r]]_vars

C10_Witness ==
    /\ pc[1] = "loop"
    /\ limit[1] > 0
    /\ Len(Buf(1)) = limit[1]
    /\ idx[1] <= Len(items[1])
    /\ ~hasEmptyInformation(variant, items[1][idx[1]].BookInformation)
(***************************************************************************)
(* C11: no upstream failure is retried: at most one upstream call of an    *)
(* invocation fails, it is the last call of the invocation, and no call is *)
(* issued after it.                                                        *)
(***************************************************************************)
C11_NoRetry ==
    /\ [](\A r \in Reqs : /\ fails[r] <= 1
                          /\ (fails[r] = 1 => ~CallOutstanding(r) /\ pc[r] # "loop"))
    /\ [][\A r \in Reqs : fails[r] = 1 =>
              /\ calls'[r] = calls[r]
              /\ fails'[r] = fails[r]
              /\ sent'[r] = sent[r]]_vars

C11_Witness ==
    /\ pc[1] = "done"
    /\ fails[1] = 1
    /\ calls[1] = MaxTracked
    /\ Len(pages[1]) = calls[1] - 1

(***************************************************************************)
(* C12: every upstream call of an invocation carries the same request, the *)
(* escaped query with no page, offset or cursor, whatever the number of    *)
(* calls made and the buffer contents; the result may then hold the same   *)
(* record more than once.                                                  *)
(***************************************************************************)
VolumesURL == "https://www.googleapis.com/books/v1/volumes?q="

ExpectedRequest(r) ==
    IF queryParam[r] = <<"d", "u", "n", "e">> THEN <<VolumesURL, "d", "u", "n", "e">>
    ELSE <<VolumesURL, "a", "+", "%", "2", "6">>

C12_SameRequest ==
    \A r \in Reqs :
        /\ sent[r] \subseteq {ExpectedRequest(r)}
        /\ (calls[r] > 0 => sent[r] = {ExpectedRequest(r)})

HasDuplicate(s) == \E i, j \in 1..Len(s) : i < j /\ s[i] = s[j]

C12_Witness ==
    /\ pc[1] = "done"
    /\ status[1] = StatusOK
    /\ calls[1] >= 2
    /\ Tracked(1)
    /\ \A i \in 1..Len(pages[1]) : pages[1][i] = pages[1][1]
    /\ queryParam[1] = <<"a", " ", "&">>
    /\ Len(Buf(1)) >= 2
    /\ HasDuplicate(response[1].Books)

(***************************************************************************)
(* C13: the buffer is append-only: at every step the buffer before the     *)
(* step is a prefix of the buffer after it, and getBooks returns that      *)
(* buffer or, on error, an empty list.                                     *)
(***************************************************************************)
IsPrefix(s, t) == Len(s) <= Len(t) /\ SubSeq(t, 1, Len(s)) = s

C13_AppendOnly ==
    /\ [][\A r \in Reqs : IsPrefix(Buf(r), books'[BufOf(r)])]_vars
    /\ [](\A r \in Reqs : pc[r] \in {"ret", "done"} =>
              ret[r] = IF err[r] THEN <<>> ELSE Buf(r))

C13_Witness ==
    /\ pc[1] = "scan"
    /\ Len(pages[1]) >= 2
    /\ lenAtCall[1] >= 2
    /\ Len(Buf(1)) > lenAtCall[1]
    /\ Buf(1)[1] # Buf(1)[Len(Buf(1))]
(***************************************************************************)
(* C14: every 200 response echoes the caller's query unchanged (not the    *)
(* escaped one sent upstream), and its total is the number of entries of   *)
(* books, the list getBooks returned.                                      *)
(***************************************************************************)
C14_ResponseShape ==
    \A r \in Reqs : status[r] = StatusOK =>
        /\ response[r].Query = queryParam[r]
        /\ response[r].Total = Len(response[r].Books)
        /\ response[r].Books = ret[r]
        /\ ~err[r]

C14_Witness ==
    /\ pc[1] = "done"
    /\ status[1] = StatusOK
    /\ queryParam[1] = <<"a", " ", "&">>
    /\ q[1] # queryParam[1]
    /\ response[1].Total >= 2

(***************************************************************************)
(* C15: a successful result shorter than the clamped limit occurs only     *)
(* when the last upstream call returned an empty page; if no page received *)
(* was empty the result has exactly min(limit, 50) records.                *)
(***************************************************************************)
LastPageEmpty(r) ==
    /\ Len(pages[r]) > 0
    /\ pages[r][Len(pages[r])] = <<>>
    /\ calls[r] = Len(pages[r])

C15_ShortOnlyAfterEmptyPage ==
    \A r \in Reqs : (pc[r] \in {"ret", "done"} /\ invoked[r] /\ ~err[r]) =>
        \/ Len(ret[r]) = Clamped(r)
        \/ LastPageEmpty(r)

C15_Witness ==
    /\ pc[1] = "done"
    /\ status[1] = StatusOK
    /\ Len(pages[1]) >= 2
    /\ \A i \in 1..Len(pages[1]) : pages[1][i] # <<>>
    /\ \E i \in 1..Len(pages[1]) : AcceptedOnly(variant, pages[1][i]) = <<>>
    /\ Clamped(1) >= 2
    /\ response[1].Total = Clamped(1)

(***************************************************************************)
(* C16: a successful upstream call whose page holds a complete record      *)
(* strictly increases the buffer; if every page received is empty or holds *)
(* a complete record and no call fails, at most min(limit, 50) upstream    *)
(* calls are made.                                                         *)
(***************************************************************************)
HasComplete(build, its) ==
    \E i \in 1..Len(its) : IsComplete(build, its[i].BookInformation)

\* every page received so far is empty or holds a complete record
AllProductive(r) ==
    \A i \in 1..Len(pages[r]) :
        pages[r][i] = <<>> \/ HasComplete(variant, pages[r][i])

C16_ProgressBoundsCalls ==
    \A r \in Reqs :
        /\ (pc[r] = "loop" /\ calls[r] > 0 /\ HasComplete(variant, items[r])) =>
               Len(Buf(r)) > lenAtCall[r]
        /\ (invoked[r] /\ fails[r] = 0 /\ AllProductive(r)) =>
               calls[r] <= Clamped(r)

C16_Witness ==
    /\ pc[1] = "done"
    /\ status[1] = StatusOK
    /\ fails[1] = 0
    /\ AllProductive(1)
    /\ Len(pages[1]) >= 2
    /\ calls[1] = Len(pages[1])
    /\ Len(Buf(1)) > lenAtCall[1]
    /\ lenAtCall[1] > 0
====
